---- MODULE Spec2Model ----
(***************************************************************************)
(* CLDPM: the symlink synchronisation engine (core/linker), the dependency *)
(* resolver (core/resolver) and the remote staged retrieval (commands/get, *)
(* utils/git) of the TypeScript implementation.                            *)
(*                                                                         *)
(* Three specifications share this module:                                 *)
(*   Spec         the linker operations on one project                     *)
(*   SpecResolve  one traversal of resolveComponentDependencies            *)
(*   SpecGet      one run of `cldpm get`, local or --remote                *)
(*                                                                         *)
(* Modelling assumptions.  File-system calls fail only for the reasons the *)
(* model represents (an entry that exists, an entry that is missing); a    *)
(* project's .claude/<kind> is a directory or absent; component names do   *)
(* not start with "." (hidden entries are not components for the code).    *)
(* readdir is taken to list a directory in name order.                     *)
(***************************************************************************)
EXTENDS Integers, Sequences, FiniteSets, TLC

(***************************************************************************)
(* Bounds                                                                  *)
(***************************************************************************)
\* longest dependency list of one kind in project.json
MaxDeps == 2

\* most dependencies one component's metadata file names
MaxCompDeps == 2

\* deepest recursion of resolveComponentDependencies the model follows
MaxStack == 5

(***************************************************************************)
(* Program constants                                                       *)
(***************************************************************************)
ComponentTypes == <<"skills", "agents", "hooks", "rules">>

Kinds == {ComponentTypes[i] : i \in 1..Len(ComponentTypes)}

CLDPM_GITIGNORE_HEADER == "# CLDPM shared components (auto-generated)"

\* entry names of the model, in the order readdir lists them
NameOrder == <<".x", "a", "b">>

Names == {NameOrder[i] : i \in 1..Len(NameOrder)}

\* name.startsWith(".")
startsWithDot(name) == name \in {".x"}

\* the names the model's manifests and metadata files may list
PlainNames == {n \in Names : ~startsWithDot(n)}

Nodes == Kinds \X Names

\* the components the model populates and makes calls for
Slots == {<<"skills", "a">>, <<"skills", "b">>, <<"agents", "a">>}

(***************************************************************************)
(* Paths: an absolute path is a sequence of segments that starts with "/". *)
(***************************************************************************)
RECURSIVE NormalizeFrom(_, _)
NormalizeFrom(p, acc) ==
  IF p = <<>> THEN acc
  ELSE IF Head(p) = ".."
       THEN NormalizeFrom(Tail(p),
                          IF Len(acc) > 1 THEN SubSeq(acc, 1, Len(acc) - 1) ELSE acc)
       ELSE NormalizeFrom(Tail(p), Append(acc, Head(p)))

\* path.join(base, ...segs): concatenates and normalises ".."
join(base, segs) == NormalizeFrom(segs, base)

RECURSIVE CommonPrefixLen(_, _)
CommonPrefixLen(p, q) ==
  IF p = <<>> \/ q = <<>> THEN 0
  ELSE IF Head(p) # Head(q) THEN 0
       ELSE 1 + CommonPrefixLen(Tail(p), Tail(q))

\* as if the link stored the source path as given
relativeAbsolute(from, to) == to

\* path.relative(from, to) of two absolute paths
relative(from, to) ==
  LET c == CommonPrefixLen(from, to)
  IN  [i \in 1..(Len(from) - c) |-> ".."] \o SubSeq(to, c + 1, Len(to))

Range(q) == {q[i] : i \in 1..Len(q)}

IsAbsolute(p) == Len(p) > 0 /\ p[1] = "/"

\* the path a symlink with raw target `raw`, stored in directory `dir`, denotes
ResolveLink(dir, raw) ==
  IF IsAbsolute(raw) THEN NormalizeFrom(Tail(raw), <<"/">>) ELSE join(dir, raw)

repoRoot == <<"/", "repo">>

\* cldpm.json: sharedDir (default "shared")
sharedDir == join(repoRoot, <<"shared">>)

projectPath == join(repoRoot, <<"projects", "p">>)

\* the paths of the model, computed once
SharedPaths ==
  [c \in {ComponentTypes[i] : i \in 1..Len(ComponentTypes)} \X {NameOrder[i] : i \in 1..Len(NameOrder)}
     |-> join(sharedDir, <<c[1], c[2]>>)]

TypeDirPaths ==
  [k \in {ComponentTypes[i] : i \in 1..Len(ComponentTypes)}
     |-> join(projectPath, <<".claude", k>>)]

SlotPaths ==
  [c \in {ComponentTypes[i] : i \in 1..Len(ComponentTypes)} \X {NameOrder[i] : i \in 1..Len(NameOrder)}
     |-> join(TypeDirPaths[c[1]], <<c[2]>>)]

GitignorePaths ==
  [k \in {ComponentTypes[i] : i \in 1..Len(ComponentTypes)}
     |-> join(TypeDirPaths[k], <<".gitignore">>)]

SharedPath(compType, compName) == SharedPaths[<<compType, compName>>]

TypeDirPath(compType) == TypeDirPaths[compType]

SlotPath(compType, compName) == SlotPaths[<<compType, compName>>]

GitignorePath(compType) == GitignorePaths[compType]

\* a directory outside the repository that exists
ElsewherePath == <<"/", "elsewhere">>

(***************************************************************************)
(* File-system values                                                      *)
(***************************************************************************)
NoEntry == [type |-> "none", content |-> "", target |-> <<>>]

DirEntry(c) == [type |-> "dir", content |-> c, target |-> <<>>]

FileEntry(c) == [type |-> "file", content |-> c, target |-> <<>>]

LinkEntry(raw) == [type |-> "symlink", content |-> "", target |-> raw]

NoFile == [present |-> FALSE, lines |-> <<>>]

TextFile(ls) == [present |-> TRUE, lines |-> ls]

VARIABLES
  shared,     \* shared storage: the set of <<kind, name>> whose directory exists
  deps,       \* project.json: dependencies, kind -> list of names
  fs,         \* the project's .claude tree: typeDir, entries, gitignore
  op,         \* the last linker call or command and what it returned
  manifests,  \* cldpm.json and project.json: "ok", "missing" or "invalid"
  metadata,   \* shared storage: <<kind, name>> -> the dependencies in its metadata file
  metaFile,   \* shared storage: <<kind, name>> -> the rest of its metadata file
  rpc,        \* resolver: "idle", "running" or "done"
  root,       \* resolver: the component the traversal was started for
  stack,      \* resolver: the active calls, innermost last
  visited,    \* resolver: the visited set shared by the recursion
  result,     \* resolver: the list returned by the outermost call
  expanded,   \* resolver: how often each component's dependencies were walked
  allDeps,    \* resolver: what getAllDependenciesForComponent returns
  gpc,        \* get --remote: the step the command is at, "done" or "exited"
  opts,       \* get --remote: download (--download), useSparse (hasSparseCloneSupport)
  remote,     \* the remote repository and the download destination
  temps,      \* the temporary directories that exist on disk
  tempConfig, \* handleRemoteGetSparse: local variable, a directory or "null"
  tempDir,    \* handleRemoteGetSparse / handleRemoteGetFull: local variable
  exitCode,   \* the exit code of the process, -1 while it runs
  staged,     \* what each staging directory holds, as paths of the repository
  view,       \* the resolved view the command printed
  output,     \* the download destination written by this run
  env,        \* process.env: GITHUB_TOKEN and GH_TOKEN, "" when unset
  clones,     \* the URLs git clone was run with
  warnings    \* the warnings the command printed

linkerVars == <<deps, fs, op, manifests>>

resolverVars == <<metadata, metaFile, rpc, root, stack, visited, result, expanded, allDeps>>

getVars == <<gpc, opts, remote, temps, tempConfig, tempDir, exitCode, staged, view, output,
             env, clones, warnings>>

vars == <<shared, linkerVars, resolverVars, getVars>>

(***************************************************************************)
(* core/config.ts : pathExists (access follows symlinks)                   *)
(***************************************************************************)
pathExists(f, sh, p) ==
  \/ p = ElsewherePath
  \/ \E k \in Kinds, n \in Names : p = SharedPath(k, n) /\ <<k, n>> \in sh
  \/ \E k \in Kinds : p = TypeDirPath(k) /\ f.typeDir[k]
  \/ \E k \in Kinds : p = GitignorePath(k) /\ f.gitignore[k].present
  \/ \E k \in Kinds, n \in Names :
       /\ p = SlotPath(k, n)
       /\ LET e == f.entries[k][n]
              t == ResolveLink(TypeDirPath(k), e.target)
          IN  \/ e.type \in {"dir", "file"}
              \/ /\ e.type = "symlink"
                 /\ \/ t = ElsewherePath
                    \/ \E k2 \in Kinds, n2 \in Names :
                         t = SharedPath(k2, n2) /\ <<k2, n2>> \in sh

SlotOf(p) == CHOOSE s \in Kinds \X Names : SlotPath(s[1], s[2]) = p

(***************************************************************************)
(* core/linker.ts : createSymlink                                          *)
(***************************************************************************)
\* as if the target were replaced whatever it is
createSymlinkOverwrite(f, sh, source, target) ==
  LET k == SlotOf(target)[1]
      n == SlotOf(target)[2]
      parentDir == join(target, <<"..">>)
      relativeSource == relative(parentDir, source)
  IN  [ok |-> TRUE,
       fs |-> [f EXCEPT !.typeDir[k] = TRUE,
                        !.entries[k][n] = LinkEntry(relativeSource)]]

createSymlink(f, sh, source, target) ==
  LET k == SlotOf(target)[1]
      n == SlotOf(target)[2]
      e == f.entries[k][n]
      parentDir == join(target, <<"..">>)
      relativeSource == relative(parentDir, source)
  IN  IF pathExists(f, sh, target) /\ e.type # "symlink"
        THEN \* not a symlink, don't overwrite
             [ok |-> FALSE, fs |-> f]
      ELSE IF ~pathExists(f, sh, target) /\ e.type # "none"
        THEN \* a dangling symlink: access fails, mkdir succeeds, symlink throws EEXIST
             [ok |-> FALSE, fs |-> f]
      ELSE \* free slot, or a live symlink that was unlinked first
             [ok |-> TRUE,
              fs |-> [f EXCEPT !.typeDir[k] = TRUE,
                               !.entries[k][n] = LinkEntry(relativeSource)]]

(***************************************************************************)
(* core/linker.ts : removeProjectLinks                                     *)
(***************************************************************************)
\* as if the lstat check were missing: directories are removed too
removeProjectLinksAllEntries(f) ==
  [f EXCEPT !.entries =
     [k \in Kinds |-> [n \in Names |->
        IF f.typeDir[k] /\ f.entries[k][n].type \in {"dir", "symlink"}
          THEN NoEntry ELSE f.entries[k][n]]]]

\* as if the Dirent filter were entry.isDirectory() alone: no symlink passes it
removeProjectLinksDirentOnly(f) ==
  [f EXCEPT !.entries =
     [k \in Kinds |-> [n \in Names |->
        IF /\ f.typeDir[k]
           /\ f.entries[k][n].type \in {"dir"}
           /\ f.entries[k][n].type = "symlink"
          THEN NoEntry ELSE f.entries[k][n]]]]

removeProjectLinks(f) ==
  [f EXCEPT !.entries =
     [k \in Kinds |-> [n \in Names |->
        IF /\ f.typeDir[k]
           /\ f.entries[k][n].type \in {"dir", "symlink"}
           /\ f.entries[k][n].type = "symlink"
          THEN NoEntry ELSE f.entries[k][n]]]]

(***************************************************************************)
(* core/linker.ts : updateComponentGitignore                               *)
(***************************************************************************)
startsWithHeader(file) == Len(file.lines) > 0 /\ file.lines[1] = CLDPM_GITIGNORE_HEADER

\* as if the header check were missing when the list is empty
updateComponentGitignoreAlwaysDelete(f, compType, symlinks) ==
  IF Len(symlinks) = 0
    THEN [f EXCEPT !.gitignore[compType] = NoFile]
    ELSE [f EXCEPT !.gitignore[compType] =
             TextFile(<<CLDPM_GITIGNORE_HEADER>> \o symlinks)]

\* as if the names were appended to a generated file instead of replacing it
updateComponentGitignoreAppend(f, compType, symlinks) ==
  LET g == f.gitignore[compType]
  IN  IF Len(symlinks) = 0
        THEN IF g.present /\ startsWithHeader(g)
               THEN [f EXCEPT !.gitignore[compType] = NoFile]
               ELSE f
        ELSE IF g.present /\ startsWithHeader(g)
               THEN [f EXCEPT !.gitignore[compType] = TextFile(g.lines \o symlinks)]
               ELSE [f EXCEPT !.gitignore[compType] =
                        TextFile(<<CLDPM_GITIGNORE_HEADER>> \o symlinks)]

updateComponentGitignore(f, compType, symlinks) ==
  LET g == f.gitignore[compType]
  IN  IF Len(symlinks) = 0
        THEN IF g.present /\ startsWithHeader(g)
               THEN [f EXCEPT !.gitignore[compType] = NoFile]
               ELSE f
        ELSE [f EXCEPT !.gitignore[compType] =
                 TextFile(<<CLDPM_GITIGNORE_HEADER>> \o symlinks)]

(***************************************************************************)
(* core/linker.ts : getSharedComponentsInDir                               *)
(***************************************************************************)
\* as if the lstat check were missing: every non-hidden entry is listed
getSharedComponentsInDirAll(f, compType) ==
  IF f.typeDir[compType]
    THEN SelectSeq(NameOrder, LAMBDA n : /\ ~startsWithDot(n)
                                         /\ f.entries[compType][n].type # "none")
    ELSE <<>>

\* the entries that are symlinks; names that start with a dot are skipped
getSharedComponentsInDir(f, compType) ==
  IF f.typeDir[compType]
    THEN SelectSeq(NameOrder, LAMBDA n : /\ ~startsWithDot(n)
                                         /\ f.entries[compType][n].type = "symlink")
    ELSE <<>>

(***************************************************************************)
(* core/linker.ts : syncProjectLinks                                       *)
(***************************************************************************)
\* as if a missing component ended the loop (break instead of continue)
RECURSIVE syncDepsBreak(_, _, _, _, _)
syncDepsBreak(acc, sh, compType, names, i) ==
  IF i > Len(names) THEN acc
  ELSE LET compName == names[i]
           source == SharedPath(compType, compName)
           target == SlotPath(compType, compName)
       IN  IF ~pathExists(acc.fs, sh, source)
             THEN [acc EXCEPT !.missing = Append(@, <<compType, compName>>)]
             ELSE LET r == createSymlink(acc.fs, sh, source, target)
                  IN  syncDepsBreak(IF r.ok
                                      THEN [acc EXCEPT !.fs = r.fs,
                                                       !.created = Append(@, <<compType, compName>>),
                                                       !.symlinks = Append(@, compName)]
                                      ELSE [acc EXCEPT !.fs = r.fs],
                                    sh, compType, names, i + 1)

\* the loop over one kind's declared names (lines 716-730)
RECURSIVE syncDeps(_, _, _, _, _)
syncDeps(acc, sh, compType, names, i) ==
  IF i > Len(names) THEN acc
  ELSE LET compName == names[i]
           source == SharedPath(compType, compName)
           target == SlotPath(compType, compName)
       IN  IF ~pathExists(acc.fs, sh, source)
             THEN syncDeps([acc EXCEPT !.missing = Append(@, <<compType, compName>>)],
                           sh, compType, names, i + 1)
             ELSE LET r == createSymlink(acc.fs, sh, source, target)
                  IN  syncDeps(IF r.ok
                                 THEN [acc EXCEPT !.fs = r.fs,
                                                  !.created = Append(@, <<compType, compName>>),
                                                  !.symlinks = Append(@, compName)]
                                 ELSE [acc EXCEPT !.fs = r.fs],
                               sh, compType, names, i + 1)

\* the loop over the kinds (lines 708-734)
RECURSIVE syncTypes(_, _, _, _)
syncTypes(acc, sh, d, t) ==
  IF t > Len(ComponentTypes) THEN acc
  ELSE LET compType == ComponentTypes[t]
           made == [acc EXCEPT !.fs.typeDir[compType] = TRUE, !.symlinks = <<>>]
           done == syncDeps(made, sh, compType, d[compType], 1)
       IN  syncTypes([done EXCEPT !.fs = updateComponentGitignore(done.fs, compType,
                                                                  done.symlinks)],
                     sh, d, t + 1)

\* loadCldpmConfig / loadProjectConfig: readFile, JSON.parse and the schema's
\* parse each throw for a file that is missing or invalid
loadCldpmConfig(man) == [threw |-> man.root # "ok"]

loadProjectConfig(man) == [threw |-> man.project # "ok"]

\* as if the old links were removed before the manifests are loaded
syncProjectLinksUnlinkFirst(f, sh, d, man) ==
  LET r == syncTypes([fs |-> removeProjectLinks(f), created |-> <<>>,
                      missing |-> <<>>, symlinks |-> <<>>], sh, d, 1)
  IN  IF loadCldpmConfig(man).threw \/ loadProjectConfig(man).threw
        THEN [threw |-> TRUE, fs |-> removeProjectLinks(f),
              created |-> <<>>, missing |-> <<>>]
        ELSE [threw |-> FALSE, fs |-> r.fs, created |-> r.created, missing |-> r.missing]

\* both manifests are loaded first (lines 697-698); a throw leaves the call
\* before removeProjectLinks
syncProjectLinks(f, sh, d, man) ==
  LET r == syncTypes([fs |-> removeProjectLinks(f), created |-> <<>>,
                      missing |-> <<>>, symlinks |-> <<>>], sh, d, 1)
  IN  IF loadCldpmConfig(man).threw \/ loadProjectConfig(man).threw
        THEN [threw |-> TRUE, fs |-> f, created |-> <<>>, missing |-> <<>>]
        ELSE [threw |-> FALSE, fs |-> r.fs, created |-> r.created, missing |-> r.missing]

(***************************************************************************)
(* core/linker.ts : addComponentLink, removeComponentLink                  *)
(***************************************************************************)
addComponentLink(f, sh, compType, compName) ==
  LET source == SharedPath(compType, compName)
      made == [f EXCEPT !.typeDir[compType] = TRUE]
      r == createSymlink(made, sh, source, SlotPath(compType, compName))
  IN  IF ~pathExists(f, sh, source)
        THEN [ok |-> FALSE, fs |-> f]
      ELSE IF r.ok
        THEN [ok |-> TRUE,
              fs |-> updateComponentGitignore(r.fs, compType,
                                              getSharedComponentsInDir(r.fs, compType))]
      ELSE [ok |-> FALSE, fs |-> r.fs]

removeComponentLink(f, sh, compType, compName) ==
  LET target == SlotPath(compType, compName)
      gone == [f EXCEPT !.entries[compType][compName] = NoEntry]
  IN  IF ~pathExists(f, sh, target)
        THEN [ok |-> FALSE, fs |-> f]
      ELSE IF f.entries[compType][compName].type # "symlink"
        THEN [ok |-> FALSE, fs |-> f]
      ELSE [ok |-> TRUE,
            fs |-> updateComponentGitignore(gone, compType,
                                            getSharedComponentsInDir(gone, compType))]

(***************************************************************************)
(* core/config.ts : loadComponentMetadata                                  *)
(* null when the component's directory is missing; a missing or unreadable *)
(* metadata file gives empty dependency lists (md[c] is then empty)        *)
(***************************************************************************)
loadComponentMetadata(md, sh, c) ==
  IF c \in sh
    THEN [found |-> TRUE, dependencies |-> md[c]]
    ELSE [found |-> FALSE, dependencies |-> [k \in Kinds |-> <<>>]]

(***************************************************************************)
(* core/resolver.ts : resolveComponentDependencies, one step per call,     *)
(* loop iteration and return                                               *)
(***************************************************************************)
\* a call that walks c's dependencies: the loop is at list t, element i
Frame(c) == [node |-> c, t |-> 1, i |-> 1, deps |-> <<>>]

\* the next <<list, element>> of the two nested loops at or after <<t, i>>
RECURSIVE LoopPosition(_, _, _)
LoopPosition(dependencies, t, i) ==
  IF t > Len(ComponentTypes) THEN [t |-> t, i |-> 1]
  ELSE IF i <= Len(dependencies[ComponentTypes[t]]) THEN [t |-> t, i |-> i]
  ELSE LoopPosition(dependencies, t + 1, 1)

\* as if the visited set were never consulted
hasVisitedNever(v, c) == FALSE

\* visited.has(key), lines 475-478
hasVisited(v, c) == c \in v

\* as if the recursive call's result were dropped
pushTransitiveDropped(d, transitive) == d

\* deps.push(...transitive), line 500
pushTransitive(d, transitive) == d \o transitive

\* the entry of a call for component c made with the stack st (lines 475-486):
\* the call returns [] at once, or becomes the innermost frame
enterCall(st, v, ex, md, sh, c) ==
  IF hasVisited(v, c)
    THEN [stack |-> st, visited |-> v, expanded |-> ex, entered |-> FALSE]
  ELSE IF ~loadComponentMetadata(md, sh, c).found
    THEN [stack |-> st, visited |-> v \cup {c}, expanded |-> ex, entered |-> FALSE]
  ELSE [stack |-> Append(st, Frame(c)), visited |-> v \cup {c},
        expanded |-> [ex EXCEPT ![c] = @ + 1], entered |-> TRUE]

\* as if every name were new
includesNever(list, x) == FALSE

\* Array.prototype.includes
includes(list, x) == \E i \in 1..Len(list) : list[i] = x

\* the loop of lines 524-528 over the pairs d[i..], grouping into acc
RECURSIVE groupByType(_, _, _)
groupByType(acc, d, i) ==
  IF i > Len(d) THEN acc
  ELSE LET depType == d[i][1]
           depName == d[i][2]
       IN  groupByType(IF ~includes(acc[depType], depName)
                         THEN [acc EXCEPT ![depType] = Append(@, depName)]
                         ELSE acc,
                       d, i + 1)

\* getAllDependenciesForComponent, applied to what resolveComponentDependencies
\* returned for the component
getAllDependenciesForComponent(d) == groupByType([k \in Kinds |-> <<>>], d, 1)

\* the outermost call, made by getAllDependenciesForComponent with a fresh
\* visited set
ResolveCall ==
  /\ rpc = "idle"
  /\ \E c \in Slots :
       LET r == enterCall(<<>>, {}, expanded, metadata, shared, c)
       IN  /\ root' = c
           /\ stack' = r.stack
           /\ visited' = r.visited
           /\ expanded' = r.expanded
           /\ rpc' = IF r.entered THEN "running" ELSE "done"
           /\ result' = <<>>
           /\ allDeps' = getAllDependenciesForComponent(<<>>)
  /\ UNCHANGED <<shared, linkerVars, getVars, metadata, metaFile>>

\* one iteration of the inner loop (lines 490-501): push the dependency and
\* make the recursive call for it
ResolveDependency ==
  /\ rpc = "running"
  /\ Len(stack) < MaxStack
  /\ LET top == stack[Len(stack)]
         dependencies == loadComponentMetadata(metadata, shared, top.node).dependencies
         pos == LoopPosition(dependencies, top.t, top.i)
     IN  /\ pos.t <= Len(ComponentTypes)
         /\ LET d == <<ComponentTypes[pos.t], dependencies[ComponentTypes[pos.t]][pos.i]>>
                pushed == [stack EXCEPT ![Len(stack)] =
                             [top EXCEPT !.t = pos.t, !.i = pos.i + 1,
                                         !.deps = Append(@, d)]]
                r == enterCall(pushed, visited, expanded, metadata, shared, d)
            IN  /\ stack' = r.stack
                /\ visited' = r.visited
                /\ expanded' = r.expanded
  /\ UNCHANGED <<shared, linkerVars, getVars, metadata, metaFile, rpc, root, result, allDeps>>

\* the loops are over: return deps to the caller (line 504)
ResolveReturn ==
  /\ rpc = "running"
  /\ LET top == stack[Len(stack)]
         dependencies == loadComponentMetadata(metadata, shared, top.node).dependencies
         pos == LoopPosition(dependencies, top.t, top.i)
         rest == SubSeq(stack, 1, Len(stack) - 1)
     IN  /\ pos.t > Len(ComponentTypes)
         /\ IF rest = <<>>
              THEN /\ result' = top.deps
                   /\ allDeps' = getAllDependenciesForComponent(top.deps)
                   /\ rpc' = "done"
                   /\ stack' = <<>>
              ELSE /\ stack' = [rest EXCEPT ![Len(rest)].deps = pushTransitive(@, top.deps)]
                   /\ UNCHANGED <<result, allDeps, rpc>>
  /\ UNCHANGED <<shared, linkerVars, getVars, metadata, metaFile, root, visited, expanded>>

(***************************************************************************)
(* The linker specification: one project, calls in any order               *)
(***************************************************************************)
\* lists of names up to length n
SeqsUpTo(S, n) == UNION {[1..m -> S] : m \in 0..n}

GoodLink(k, n) == LinkEntry(relative(TypeDirPath(k), SharedPath(k, n)))

\* a link left behind at slot skills/a that points to shared/skills/b: live
\* while that component exists, dangling once it is gone
StaleLink == LinkEntry(relative(TypeDirPath("skills"), SharedPath("skills", "b")))

InitialEntries(k, n) ==
  IF k = "skills"
    THEN {NoEntry, DirEntry("local"), FileEntry("local"), GoodLink(k, n),
          LinkEntry(ElsewherePath)} \cup (IF n = "a" THEN {StaleLink} ELSE {})
  ELSE {NoEntry}

InitialGitignore(k) ==
  IF k = "skills"
    THEN {NoFile, TextFile(<<"*.tmp">>), TextFile(<<CLDPM_GITIGNORE_HEADER, "b">>)}
    ELSE {NoFile}

InitialDeps(k) ==
  IF k = "skills" THEN SeqsUpTo(PlainNames, MaxDeps)
  ELSE IF k = "agents" THEN {<<"a">>}
  ELSE {<<>>}

NoMetadata == [c \in Nodes |-> [k \in Kinds |-> <<>>]]

\* a metadata file besides its dependency lists: status is "valid" (parses
\* and passes the schema), "invalid" (JSON that fails the schema),
\* "unparsable" or "absent"; extra are its top-level fields the schema does
\* not name, depExtra the keys under dependencies it does not name
PlainMetaFile == [status |-> "valid", extra |-> {}, depExtra |-> {}]

NoMetaFiles == [c \in Nodes |-> PlainMetaFile]

ManifestsOk == [root |-> "ok", project |-> "ok"]

ResolverIdle ==
  /\ metadata = NoMetadata
  /\ metaFile = NoMetaFiles
  /\ rpc = "idle"
  /\ root = <<"skills", "a">>
  /\ stack = <<>>
  /\ visited = {}
  /\ result = <<>>
  /\ expanded = [c \in Nodes |-> 0]
  /\ allDeps = [k \in Kinds |-> <<>>]

\* the staging directories a remote get hands to its caller
TempNames == {"cldpm-1", "cldpm-2", "cldpm-3", "cldpm-full"}

NoView == [name |-> "", shared |-> [k \in Kinds |-> <<>>], local |-> [k \in Kinds |-> <<>>]]

NoOutput == [written |-> FALSE, entries |-> [k \in Kinds |-> [n \in Names |-> NoEntry]]]

NoEnv == [GITHUB_TOKEN |-> "", GH_TOKEN |-> ""]

\* the environments of the model
Envs == {[GITHUB_TOKEN |-> g, GH_TOKEN |-> h] : g \in {"", "ghp"}, h \in {"", "gho"}}

NoTokenWarning == "No GITHUB_TOKEN or GH_TOKEN found. Private repos may not be accessible."

GetIdle ==
  /\ gpc = "idle"
  /\ opts = [remote |-> TRUE, download |-> FALSE, useSparse |-> TRUE]
  /\ remote = [hasRoot |-> TRUE, hasProject |-> TRUE, projectJsonOk |-> TRUE,
               destExists |-> FALSE, subdirs |-> FALSE, host |-> "github.com"]
  /\ temps = {}
  /\ tempConfig = "null"
  /\ tempDir = "null"
  /\ exitCode = -1
  /\ staged = [t \in TempNames |-> {}]
  /\ view = NoView
  /\ output = NoOutput
  /\ env = NoEnv
  /\ clones = {}
  /\ warnings = <<>>

\* streak: how many syncProjectLinks calls in a row ended in this state (at most 2)
\* threw: the call raised (a command: it ended with process.exit(1));
\* written: the <<kind, name>> a command newly wrote into project.json;
\* withDeps: the command ran without --no-deps
NoCall == [name |-> "none", kind |-> "", comp |-> "", ok |-> TRUE,
           created |-> <<>>, missing |-> <<>>, streak |-> 0,
           threw |-> FALSE, written |-> {}, withDeps |-> FALSE]

Init ==
  /\ shared \in SUBSET Slots
  /\ \E ds \in InitialDeps("skills"), da \in InitialDeps("agents") :
       deps = [k \in Kinds |-> IF k = "skills" THEN ds
                               ELSE IF k = "agents" THEN da ELSE <<>>]
  /\ \E e1 \in InitialEntries("skills", "a"), e2 \in InitialEntries("skills", "b"),
        e3 \in InitialEntries("agents", "a"), g \in InitialGitignore("skills") :
       LET en == [k \in Kinds |-> [n \in Names |->
                    IF <<k, n>> = <<"skills", "a">> THEN e1
                    ELSE IF <<k, n>> = <<"skills", "b">> THEN e2
                    ELSE IF <<k, n>> = <<"agents", "a">> THEN e3
                    ELSE NoEntry]]
           gi == [k \in Kinds |-> IF k = "skills" THEN g ELSE NoFile]
       IN  fs = [typeDir |-> [k \in Kinds |-> \/ gi[k].present
                                              \/ \E n \in Names : en[k][n].type # "none"],
                 entries |-> en,
                 gitignore |-> gi]
  /\ op = NoCall
  /\ manifests = ManifestsOk
  /\ ResolverIdle
  /\ GetIdle

SyncProjectLinks ==
  /\ \E r \in {syncProjectLinks(fs, shared, deps, manifests)} :
         /\ fs' = r.fs
         /\ op' = [name |-> "sync", kind |-> "", comp |-> "", ok |-> ~r.threw,
                   created |-> r.created, missing |-> r.missing,
                   streak |-> IF op.streak = 0 THEN 1 ELSE 2,
                   threw |-> r.threw, written |-> {}, withDeps |-> FALSE]
  /\ UNCHANGED <<shared, deps, manifests, resolverVars, getVars>>

AddComponentLink ==
  /\ \E s \in Slots :
       \E r \in {addComponentLink(fs, shared, s[1], s[2])} :
           /\ fs' = r.fs
           /\ op' = [name |-> "add", kind |-> s[1], comp |-> s[2], ok |-> r.ok,
                     created |-> <<>>, missing |-> <<>>, streak |-> 0,
                     threw |-> FALSE, written |-> {}, withDeps |-> FALSE]
  /\ UNCHANGED <<shared, deps, manifests, resolverVars, getVars>>

RemoveComponentLink ==
  /\ \E s \in Slots :
       \E r \in {removeComponentLink(fs, shared, s[1], s[2])} :
           /\ fs' = r.fs
           /\ op' = [name |-> "remove", kind |-> s[1], comp |-> s[2], ok |-> r.ok,
                     created |-> <<>>, missing |-> <<>>, streak |-> 0,
                     threw |-> FALSE, written |-> {}, withDeps |-> FALSE]
  /\ UNCHANGED <<shared, deps, manifests, resolverVars, getVars>>

EmptyFs == [typeDir |-> [k \in Kinds |-> FALSE],
            entries |-> [k \in Kinds |-> [n \in Names |-> NoEntry]],
            gitignore |-> [k \in Kinds |-> NoFile]]

LinkerIdle ==
  /\ deps = [k \in Kinds |-> <<>>]
  /\ fs = EmptyFs
  /\ op = NoCall
  /\ manifests = ManifestsOk

Next == SyncProjectLinks \/ AddComponentLink \/ RemoveComponentLink

Spec == Init /\ [][Next]_vars

(***************************************************************************)
(* The resolver specification: one traversal over any dependency graph of  *)
(* the three components of Slots                                           *)
(***************************************************************************)
\* lists without repetition
NoDupSeqs(S, n) == {q \in SeqsUpTo(S, n) : \A i, j \in 1..Len(q) : q[i] = q[j] => i = j}

\* the dependency lists one metadata file may hold
MetadataChoices ==
  {[k \in Kinds |-> IF k = "skills" THEN ds ELSE IF k = "agents" THEN da ELSE <<>>] :
     ds \in NoDupSeqs(PlainNames, MaxCompDeps), da \in {<<>>, <<"a">>}}

InitResolve ==
  /\ shared \in SUBSET Slots
  /\ \E m1, m2, m3 \in {m \in MetadataChoices :
                            Len(m["skills"]) + Len(m["agents"]) <= MaxCompDeps} :
       metadata = [c \in Nodes |->
                     IF c = <<"skills", "a">> THEN m1
                     ELSE IF c = <<"skills", "b">> THEN m2
                     ELSE IF c = <<"agents", "a">> THEN m3
                     ELSE [k \in Kinds |-> <<>>]]
  /\ metaFile = NoMetaFiles
  /\ rpc = "idle"
  /\ root = <<"skills", "a">>
  /\ stack = <<>>
  /\ visited = {}
  /\ result = <<>>
  /\ expanded = [c \in Nodes |-> 0]
  /\ allDeps = [k \in Kinds |-> <<>>]
  /\ LinkerIdle
  /\ GetIdle

NextResolve == ResolveCall \/ ResolveDependency \/ ResolveReturn

SpecResolve == InitResolve /\ [][NextResolve]_vars

SpecResolveFair == SpecResolve /\ WF_vars(NextResolve)

(***************************************************************************)
(* utils/git.ts : temporary directories and clones                         *)
(***************************************************************************)
\* fs.mkdir of a fresh directory under os.tmpdir()
createTempDir(ts, name) == ts \cup {name}

\* as if the directory were left in place
cleanupTempDirSkipped(ts, name) == ts

\* fs.rm(tempDir, {recursive, force}); every createTempDir path is under tmpdir
cleanupTempDir(ts, name) == ts \ {name}

\* process.env.GITHUB_TOKEN || process.env.GH_TOKEN; "" stands for a
\* variable that is unset or empty
getGithubToken(e) == IF e.GITHUB_TOKEN # "" THEN e.GITHUB_TOKEN ELSE e.GH_TOKEN

\* the remote hosts of the model
Hosts == {"github.com", "gitlab.com"}

\* parseRepoUrl: https://<hostname>/<owner>/<repo>.git, whatever the host
parseRepoUrl(host) == [scheme |-> "https", userinfo |-> "", host |-> host]

\* repoUrl.includes("github.com")
includesGithub(url) == url.host = "github.com"

\* repoUrl.replace("https://github.com", `https://${token}@github.com`)
replaceGithub(url, token) ==
  IF url.scheme = "https" /\ url.userinfo = "" /\ url.host = "github.com"
    THEN [url EXCEPT !.userinfo = token]
    ELSE url

\* as if the token were never spliced in
authUrlPlain(repoUrl, token) == repoUrl

\* the URL handed to git clone (lines 205-212 and 281-288)
authUrl(repoUrl, token) ==
  IF token # "" /\ includesGithub(repoUrl) THEN replaceGithub(repoUrl, token) ELSE repoUrl

\* sparseClonePaths: its own clone directory is removed in the finally block
\* whether git succeeds (cloneOk) or throws
sparseClonePaths(ts, cloneName, cloneOk, repoUrl, token) ==
  [temps |-> cleanupTempDir(createTempDir(ts, cloneName), cloneName),
   threw |-> ~cloneOk,
   url |-> authUrl(repoUrl, token)]

\* sparseCloneToTemp: creates the staging directory, then clones into it;
\* a throw of sparseClonePaths passes through and the directory stays
sparseCloneToTemp(ts, name, cloneName, cloneOk, repoUrl, token) ==
  sparseClonePaths(createTempDir(ts, name), cloneName, cloneOk, repoUrl, token)

\* cloneToTemp: creates the directory, then git clone, which may throw
cloneToTemp(ts, name, cloneOk, repoUrl, token) ==
  [temps |-> createTempDir(ts, name), threw |-> ~cloneOk,
   url |-> authUrl(repoUrl, token)]

(***************************************************************************)
(* The repository a get reads: cldpm.json, projects/demo (the project      *)
(* asked for, whose .claude entries are fs.entries and whose project.json  *)
(* declares deps), projects/other, and shared/<kind>/<name> for the        *)
(* components of `shared`.  Paths are relative to the repository root.     *)
(***************************************************************************)
projectName == "demo"

RootManifest == <<"cldpm.json">>

ProjectDir == <<"projects", projectName>>

ProjectManifest == <<"projects", projectName, "project.json">>

OtherProjectDir == <<"projects", "other">>

SharedComp(k, n) == <<"shared", k, n>>

RepoPaths(sh, rem) ==
  (IF rem.hasRoot THEN {RootManifest} ELSE {})
    \cup (IF rem.hasProject THEN {ProjectDir, ProjectManifest} ELSE {})
    \cup {OtherProjectDir}
    \cup {SharedComp(c[1], c[2]) : c \in sh}

\* as if the whole clone were copied to the staging directory
sparseCopiedWhole(paths, repo) == repo

\* sparseClonePaths, step 3: each requested path that exists in the clone is
\* copied to the staging directory
sparseCopied(paths, repo) == {q \in Range(paths) : q \in repo}

\* git clone --depth 1: the whole repository
cloned(repo) == repo

\* handleRemoteGetSparse, lines 259-268: the paths of phase 3
RECURSIVE depPaths(_, _)
depPaths(d, t) ==
  IF t > Len(ComponentTypes) THEN <<>>
  ELSE [i \in 1..Len(d[ComponentTypes[t]]) |->
          SharedComp(ComponentTypes[t], d[ComponentTypes[t]][i])]
       \o depPaths(d, t + 1)

allPaths(d) == <<ProjectDir>> \o depPaths(d, 1)

(***************************************************************************)
(* The resolved views: buildSparseResult (get.ts) and resolveProject       *)
(* (core/resolver.ts).  A component directory holds the file SKILL.md and, *)
(* when rem.subdirs, the directory scripts.                                *)
(***************************************************************************)
ComponentEntries(rem) ==
  << [name |-> "SKILL.md", isFile |-> TRUE] >>
    \o (IF rem.subdirs THEN << [name |-> "scripts", isFile |-> FALSE] >> ELSE <<>>)

\* readdirSync(...).filter(statSync(...).isFile())
RECURSIVE filesOnly(_)
filesOnly(es) ==
  IF es = <<>> THEN <<>>
  ELSE (IF Head(es).isFile THEN <<Head(es).name>> ELSE <<>>) \o filesOnly(Tail(es))

\* readdir(...).filter(f => !f.startsWith("."))
visibleNames(es) == [i \in 1..Len(es) |-> es[i].name]

\* buildSparseResult, lines 424-450: one entry per declared dependency
sparseShared(stage, names, k, rem) ==
  [i \in 1..Len(names) |->
     [name |-> names[i],
      files |-> IF SharedComp(k, names[i]) \in stage
                  THEN filesOnly(ComponentEntries(rem)) ELSE <<>>]]

\* buildSparseResult, lines 452-483: every entry that is no symlink, in
\* readdir order
RECURSIVE sparseLocal(_, _, _, _)
sparseLocal(f, k, i, rem) ==
  IF i > Len(NameOrder) THEN <<>>
  ELSE LET e == f.entries[k][NameOrder[i]]
       IN  (IF e.type \in {"dir", "file"}
              THEN << [name |-> NameOrder[i],
                       files |-> IF e.type = "dir"
                                   THEN filesOnly(ComponentEntries(rem)) ELSE <<>>] >>
              ELSE <<>>)
           \o sparseLocal(f, k, i + 1, rem)

buildSparseResult(stage, d, f, rem) ==
  IF ProjectDir \in stage
    THEN [name |-> projectName,
          shared |-> [k \in Kinds |-> sparseShared(stage, d[k], k, rem)],
          local |-> [k \in Kinds |-> sparseLocal(f, k, 1, rem)]]
    ELSE [name |-> projectName,
          shared |-> [k \in Kinds |-> sparseShared(stage, d[k], k, rem)],
          local |-> [k \in Kinds |-> <<>>]]

\* resolveComponent over a dependency list: components that do not exist
\* are left out
RECURSIVE resolveShared(_, _, _, _)
resolveShared(sh, names, k, rem) ==
  IF names = <<>> THEN <<>>
  ELSE (IF <<k, Head(names)>> \in sh
          THEN << [name |-> Head(names), files |-> visibleNames(ComponentEntries(rem))] >>
          ELSE <<>>)
       \o resolveShared(sh, Tail(names), k, rem)

\* as if the lstat check were missing (Dirent.isDirectory following links)
RECURSIVE getLocalComponentsInProjectLinks(_, _, _, _)
getLocalComponentsInProjectLinks(f, k, i, rem) ==
  IF i > Len(NameOrder) THEN <<>>
  ELSE LET e == f.entries[k][NameOrder[i]]
       IN  (IF e.type \in {"dir", "symlink"} /\ ~startsWithDot(NameOrder[i])
              THEN << [name |-> NameOrder[i],
                       files |-> visibleNames(ComponentEntries(rem))] >>
              ELSE <<>>)
           \o getLocalComponentsInProjectLinks(f, k, i + 1, rem)

\* getLocalComponentsInProject: the directories that are no symlinks and
\* whose name does not start with a dot (line 339)
RECURSIVE getLocalComponentsInProject(_, _, _, _)
getLocalComponentsInProject(f, k, i, rem) ==
  IF i > Len(NameOrder) THEN <<>>
  ELSE LET e == f.entries[k][NameOrder[i]]
       IN  (IF e.type = "dir" /\ ~startsWithDot(NameOrder[i])
              THEN << [name |-> NameOrder[i],
                       files |-> visibleNames(ComponentEntries(rem))] >>
              ELSE <<>>)
           \o getLocalComponentsInProject(f, k, i + 1, rem)

\* resolveProject for a project that exists and whose manifest parses; the
\* name is the manifest's, which is the directory's name here
resolveProject(sh, d, f, rem) ==
  [name |-> projectName,
   shared |-> [k \in Kinds |-> resolveShared(sh, d[k], k, rem)],
   local |-> [k \in Kinds |-> getLocalComponentsInProject(f, k, 1, rem)]]

(***************************************************************************)
(* commands/get.ts : the three download functions.  The output directory   *)
(* is described by what its .claude/<kind>/<name> slots hold.              *)
(***************************************************************************)
SharedContent == "shared"

\* as if links were copied as links
copyProjectEntriesKeepLinks(f) ==
  [written |-> TRUE, entries |-> f.entries]

\* the copy of the project's .claude/<kind> entries: symlinks are left out
copyProjectEntries(f) ==
  [written |-> TRUE,
   entries |-> [k \in Kinds |-> [n \in Names |->
                  IF f.entries[k][n].type = "symlink" THEN NoEntry
                  ELSE f.entries[k][n]]]]

\* the loop that places shared components: pairs[i..] are <<kind, name>>;
\* a source that is missing and a slot that is taken are skipped
RECURSIVE placeShared(_, _, _, _)
placeShared(out, pairs, i, sources) ==
  IF i > Len(pairs) THEN out
  ELSE LET k == pairs[i][1]
           n == pairs[i][2]
       IN  placeShared(IF SharedComp(k, n) \in sources /\ out.entries[k][n].type = "none"
                         THEN [out EXCEPT !.entries[k][n] = DirEntry(SharedContent)]
                         ELSE out,
                       pairs, i + 1, sources)

\* the <<kind, name>> pairs of per-kind name lists, kinds in depTypes order
RECURSIVE pairsOf(_, _)
pairsOf(lists, t) ==
  IF t > Len(ComponentTypes) THEN <<>>
  ELSE [i \in 1..Len(lists[ComponentTypes[t]]) |->
          <<ComponentTypes[t], lists[ComponentTypes[t]][i]>>]
       \o pairsOf(lists, t + 1)

namesOf(components) == [k \in Kinds |-> [i \in 1..Len(components[k]) |-> components[k][i].name]]

\* downloadSparseProject(tempDir, ..., dependencies, ...)
downloadSparseProject(stage, d, f) ==
  placeShared(copyProjectEntries(f), pairsOf(d, 1), 1, stage)

\* downloadRemoteProject(resolved, tempDir, ...)
downloadRemoteProject(resolved, stage, f) ==
  placeShared(copyProjectEntries(f), pairsOf(namesOf(resolved.shared), 1), 1, stage)

\* downloadLocalProject(resolved, repoRoot, ...)
downloadLocalProject(resolved, sh, f) ==
  placeShared(copyProjectEntries(f), pairsOf(namesOf(resolved.shared), 1), 1,
              {SharedComp(c[1], c[2]) : c \in sh})

(***************************************************************************)
(* commands/get.ts : getCommand, handleRemoteGetSparse, handleRemoteGetFull *)
(* process.exit ends the process at once: no finally block runs after it.  *)
(***************************************************************************)
\* process.exit(1)
Exit1 ==
  /\ gpc' = "exited"
  /\ exitCode' = 1

\* the components a staging directory or clone holds
compsIn(stage) == {c \in Nodes : SharedComp(c[1], c[2]) \in stage}

\* getCommand (lines 752-811): the options, the repository read and the
\* strategy.  A remote repository holds no committed links (the generated
\* .gitignore keeps them out); a local one may.
GetCommand ==
  /\ gpc = "idle"
  /\ \E src \in {"local", "sparse", "full"}, d, hr, hp, ok, de, sd \in BOOLEAN,
        e \in Envs, h \in Hosts :
       /\ src # "local" => \A k \in Kinds, n \in Names : fs.entries[k][n].type # "symlink"
       \* without --remote neither the environment nor a URL is read
       /\ src = "local" => e = NoEnv /\ h = "github.com"
       /\ opts' = [remote |-> src # "local", download |-> d, useSparse |-> src = "sparse"]
       /\ remote' = [hasRoot |-> hr, hasProject |-> hp, projectJsonOk |-> ok,
                     destExists |-> de, subdirs |-> sd, host |-> h]
       /\ env' = e
       /\ warnings' = IF src # "local" /\ getGithubToken(e) = ""
                         THEN Append(warnings, NoTokenWarning) ELSE warnings
       /\ gpc' = IF src = "local" THEN "local" ELSE IF src = "sparse" THEN "phase1" ELSE "full"
  /\ UNCHANGED <<shared, linkerVars, resolverVars, temps, tempConfig, tempDir, exitCode,
                 staged, view, output, clones>>

\* getCommand without --remote (lines 813-830) and downloadLocalProject
GetLocal ==
  /\ gpc = "local"
  /\ IF ~remote.hasRoot \/ ~remote.hasProject \/ ~remote.projectJsonOk
       THEN \* resolveProject throws: caught at 827, process.exit(1)
            /\ UNCHANGED <<view, output>>
            /\ Exit1
     ELSE LET resolved == resolveProject(shared, deps, fs, remote)
          IN  /\ view' = resolved
              /\ IF opts.download /\ remote.destExists
                   THEN \* downloadLocalProject, process.exit(1) at line 83
                        /\ UNCHANGED output
                        /\ Exit1
                 ELSE /\ output' = IF opts.download
                                     THEN downloadLocalProject(resolved, shared, fs)
                                     ELSE output
                      /\ gpc' = "done"
                      /\ exitCode' = 0
  /\ UNCHANGED <<shared, linkerVars, resolverVars, opts, remote, temps, tempConfig,
                 tempDir, staged, env, clones, warnings>>

\* phase 1 (lines 215-237): fetch cldpm.json, read it, discard the directory
Phase1 ==
  /\ gpc = "phase1"
  /\ \E cloneOk \in BOOLEAN :
       LET c == sparseCloneToTemp(temps, "cldpm-1", "cldpm-sparse-1", cloneOk,
                                  parseRepoUrl(remote.host), getGithubToken(env))
           got == sparseCopied(<<RootManifest>>, RepoPaths(shared, remote))
       IN  IF c.threw
             THEN \* caught at line 306, process.exit(1) at line 313
                  /\ temps' = c.temps
                  /\ UNCHANGED <<tempConfig, staged>>
                  /\ Exit1
           ELSE IF RootManifest \notin got
             THEN \* process.exit(1) at line 226
                  /\ temps' = c.temps
                  /\ staged' = [staged EXCEPT !["cldpm-1"] = got]
                  /\ tempConfig' = "cldpm-1"
                  /\ Exit1
           ELSE /\ temps' = cleanupTempDir(c.temps, "cldpm-1")
                /\ staged' = [staged EXCEPT !["cldpm-1"] = {}]
                /\ tempConfig' = "null"
                /\ gpc' = "phase2"
                /\ UNCHANGED exitCode
  /\ clones' = clones \cup {sparseCloneToTemp(temps, "cldpm-1", "cldpm-sparse-1", TRUE,
                                 parseRepoUrl(remote.host), getGithubToken(env)).url}
  /\ UNCHANGED <<shared, linkerVars, resolverVars, opts, remote, tempDir, view, output,
                 env, warnings>>

\* phase 2 (lines 239-256): fetch the project's project.json and parse it
Phase2 ==
  /\ gpc = "phase2"
  /\ \E cloneOk \in BOOLEAN :
       LET c == sparseCloneToTemp(temps, "cldpm-2", "cldpm-sparse-2", cloneOk,
                                  parseRepoUrl(remote.host), getGithubToken(env))
           got == sparseCopied(<<ProjectManifest>>, RepoPaths(shared, remote))
       IN  IF c.threw
             THEN /\ temps' = c.temps
                  /\ UNCHANGED staged
                  /\ Exit1
           ELSE IF ProjectManifest \notin got
             THEN \* lines 247-250: cleanup, then process.exit(1)
                  /\ temps' = cleanupTempDir(c.temps, "cldpm-2")
                  /\ UNCHANGED staged
                  /\ Exit1
           ELSE IF ~remote.projectJsonOk
             THEN \* JSON.parse throws: caught at 306, process.exit(1)
                  /\ temps' = c.temps
                  /\ staged' = [staged EXCEPT !["cldpm-2"] = got]
                  /\ Exit1
           ELSE /\ temps' = cleanupTempDir(c.temps, "cldpm-2")
                /\ UNCHANGED staged
                /\ gpc' = "phase3"
                /\ UNCHANGED exitCode
  /\ clones' = clones \cup {sparseCloneToTemp(temps, "cldpm-2", "cldpm-sparse-2", TRUE,
                                 parseRepoUrl(remote.host), getGithubToken(env)).url}
  /\ UNCHANGED <<shared, linkerVars, resolverVars, opts, remote, tempConfig, tempDir,
                 view, output, env, warnings>>

\* phase 3 (lines 258-272): fetch the project and its declared dependencies
Phase3 ==
  /\ gpc = "phase3"
  /\ \E cloneOk \in BOOLEAN :
       LET c == sparseCloneToTemp(temps, "cldpm-3", "cldpm-sparse-3", cloneOk,
                                  parseRepoUrl(remote.host), getGithubToken(env))
       IN  IF c.threw
             THEN /\ temps' = c.temps
                  /\ UNCHANGED <<tempDir, staged>>
                  /\ Exit1
             ELSE /\ temps' = c.temps
                  /\ staged' = [staged EXCEPT !["cldpm-3"] =
                                  sparseCopied(allPaths(deps), RepoPaths(shared, remote))]
                  /\ tempDir' = "cldpm-3"
                  /\ gpc' = "output"
                  /\ UNCHANGED exitCode
  /\ clones' = clones \cup {sparseCloneToTemp(temps, "cldpm-3", "cldpm-sparse-3", TRUE,
                                 parseRepoUrl(remote.host), getGithubToken(env)).url}
  /\ UNCHANGED <<shared, linkerVars, resolverVars, opts, remote, tempConfig, view, output,
                 env, warnings>>

\* lines 274-321: build and print the view, download if asked, then the
\* finally block
SparseOutput ==
  /\ gpc = "output"
  /\ view' = buildSparseResult(staged[tempDir], deps, fs, remote)
  /\ IF opts.download /\ remote.destExists
       THEN \* downloadSparseProject, process.exit(1) at line 507
            /\ UNCHANGED <<temps, tempDir, staged, output>>
            /\ Exit1
     ELSE IF opts.download
       THEN \* lines 293-304, then finally: tempDir is null
            /\ output' = downloadSparseProject(staged[tempDir], deps, fs)
            /\ temps' = cleanupTempDir(temps, tempDir)
            /\ staged' = [staged EXCEPT ![tempDir] = {}]
            /\ tempDir' = "null"
            /\ gpc' = "done"
            /\ exitCode' = 0
     ELSE \* finally, lines 318-320
            /\ temps' = IF tempDir # "null" /\ ~opts.download
                          THEN cleanupTempDir(temps, tempDir) ELSE temps
            /\ staged' = IF tempDir # "null" /\ ~opts.download
                           THEN [staged EXCEPT ![tempDir] = {}] ELSE staged
            /\ UNCHANGED <<tempDir, output>>
            /\ gpc' = "done"
            /\ exitCode' = 0
  /\ UNCHANGED <<shared, linkerVars, resolverVars, opts, remote, tempConfig,
                 env, clones, warnings>>

\* handleRemoteGetFull up to the printed view (lines 339-369)
FullClone ==
  /\ gpc = "full"
  /\ \E cloneOk \in BOOLEAN :
       LET c == cloneToTemp(temps, "cldpm-full", cloneOk,
                            parseRepoUrl(remote.host), getGithubToken(env))
           got == cloned(RepoPaths(shared, remote))
       IN  /\ temps' = c.temps
           /\ IF c.threw
                THEN \* caught at 375, process.exit(1) at 382
                     /\ UNCHANGED <<tempDir, staged, view>>
                     /\ Exit1
              ELSE IF \/ RootManifest \notin got
                      \/ ProjectDir \notin got
                      \/ ~remote.projectJsonOk
                THEN \* process.exit(1) at 350, or resolveProject throws and 382
                     /\ tempDir' = "cldpm-full"
                     /\ staged' = [staged EXCEPT !["cldpm-full"] = got]
                     /\ UNCHANGED view
                     /\ Exit1
              ELSE /\ tempDir' = "cldpm-full"
                   /\ staged' = [staged EXCEPT !["cldpm-full"] = got]
                   /\ view' = resolveProject(compsIn(got), deps, fs, remote)
                   /\ gpc' = "full_output"
                   /\ UNCHANGED exitCode
  /\ clones' = clones \cup {cloneToTemp(temps, "cldpm-full", TRUE,
                           parseRepoUrl(remote.host), getGithubToken(env)).url}
  /\ UNCHANGED <<shared, linkerVars, resolverVars, opts, remote, tempConfig, output,
                 env, warnings>>

\* lines 371-387 and downloadRemoteProject (644-750)
FullOutput ==
  /\ gpc = "full_output"
  /\ IF opts.download /\ remote.destExists
       THEN \* process.exit(1) at line 659
            /\ UNCHANGED <<temps, staged, output>>
            /\ Exit1
     ELSE IF opts.download
       THEN \* downloadRemoteProject, cleanup at line 746; finally: download is set
            /\ output' = downloadRemoteProject(view, staged[tempDir], fs)
            /\ temps' = cleanupTempDir(temps, tempDir)
            /\ staged' = [staged EXCEPT ![tempDir] = {}]
            /\ gpc' = "done"
            /\ exitCode' = 0
     ELSE \* finally, lines 384-386
            /\ temps' = IF tempDir # "null" /\ ~opts.download
                          THEN cleanupTempDir(temps, tempDir) ELSE temps
            /\ staged' = IF tempDir # "null" /\ ~opts.download
                           THEN [staged EXCEPT ![tempDir] = {}] ELSE staged
            /\ UNCHANGED output
            /\ gpc' = "done"
            /\ exitCode' = 0
  /\ UNCHANGED <<shared, linkerVars, resolverVars, opts, remote, tempConfig, tempDir, view,
                 env, clones, warnings>>

\* what one component's metadata file may list in the repository of a get
GetMetadataChoices ==
  {[k \in Kinds |-> <<>>], [k \in Kinds |-> IF k = "skills" THEN <<"b">> ELSE <<>>]}

\* the .claude/skills/a entry of the project in the repository of a get
GetEntries == {NoEntry, DirEntry("local"), FileEntry("local"), GoodLink("skills", "a")}

\* the .claude/skills/.x entry: absent, or a directory the project keeps
GetHiddenEntries == {NoEntry, DirEntry("local")}

InitGet ==
  /\ shared \in SUBSET {<<"skills", "a">>, <<"skills", "b">>}
  /\ \E ds \in {<<>>, <<"a">>, <<"a", "b">>} :
       deps = [k \in Kinds |-> IF k = "skills" THEN ds ELSE <<>>]
  /\ \E e \in GetEntries, h \in GetHiddenEntries :
       fs = [typeDir |-> [k \in Kinds |-> /\ k = "skills"
                                          /\ (e.type # "none" \/ h.type # "none")],
             entries |-> [k \in Kinds |-> [n \in Names |->
                            IF <<k, n>> = <<"skills", "a">> THEN e
                            ELSE IF <<k, n>> = <<"skills", ".x">> THEN h
                            ELSE NoEntry]],
             gitignore |-> [k \in Kinds |-> NoFile]]
  /\ op = NoCall
  /\ manifests = ManifestsOk
  /\ metaFile = NoMetaFiles
  /\ \E m \in GetMetadataChoices :
       metadata = [c \in Nodes |-> IF c = <<"skills", "a">> THEN m
                                   ELSE [k \in Kinds |-> <<>>]]
  /\ rpc = "idle"
  /\ root = <<"skills", "a">>
  /\ stack = <<>>
  /\ visited = {}
  /\ result = <<>>
  /\ expanded = [c \in Nodes |-> 0]
  /\ allDeps = [k \in Kinds |-> <<>>]
  /\ GetIdle

NextGet ==
  \/ GetCommand \/ GetLocal
  \/ Phase1 \/ Phase2 \/ Phase3 \/ SparseOutput
  \/ FullClone \/ FullOutput

SpecGet == InitGet /\ [][NextGet]_vars

(***************************************************************************)
(* core/resolver.ts : resolveComponentDependencies as one call.  The       *)
(* visited set is shared by the whole recursion, so each call returns its  *)
(* list together with the set.                                             *)
(***************************************************************************)
RECURSIVE resolveLoop(_, _, _, _, _, _)

\* as if the dependencies of dependencies were not followed
resolveComponentDependenciesDirect(md, sh, c, v) ==
  [deps |-> pairsOf(loadComponentMetadata(md, sh, c).dependencies, 1),
   visited |-> v \cup {c}]

RECURSIVE resolveComponentDependencies(_, _, _, _)
resolveComponentDependencies(md, sh, c, v) ==
  IF hasVisited(v, c)
    THEN [deps |-> <<>>, visited |-> v]
  ELSE IF ~loadComponentMetadata(md, sh, c).found
    THEN [deps |-> <<>>, visited |-> v \cup {c}]
  ELSE resolveLoop(md, sh, pairsOf(loadComponentMetadata(md, sh, c).dependencies, 1),
                   1, <<>>, v \cup {c})

\* the two nested loops (lines 489-502) over the dependencies pairs[i..]
resolveLoop(md, sh, pairs, i, acc, v) ==
  IF i > Len(pairs) THEN [deps |-> acc, visited |-> v]
  ELSE LET r == resolveComponentDependencies(md, sh, pairs[i], v)
       IN  resolveLoop(md, sh, pairs, i + 1,
                       pushTransitive(Append(acc, pairs[i]), r.deps), r.visited)

(***************************************************************************)
(* commands/add.ts and commands/remove.ts                                  *)
(***************************************************************************)
\* getProjectPath: loadCpmConfig (which may throw), then access(project.json);
\* null when the file is missing
getProjectPath(man) ==
  [threw |-> loadCldpmConfig(man).threw, null |-> man.project = "missing"]

\* Array.prototype.indexOf, 0 for -1
indexOf(list, x) ==
  IF includes(list, x) THEN CHOOSE i \in 1..Len(list) :
                              list[i] = x /\ \A j \in 1..(i - 1) : list[j] # x
  ELSE 0

\* list.splice(i, 1)
splice(list, i) == SubSeq(list, 1, i - 1) \o SubSeq(list, i + 1, Len(list))

\* as if the name were pushed without the includes test of line 109
RECURSIVE addLoopAlwaysPush(_, _, _, _)
addLoopAlwaysPush(acc, sh, toAdd, i) ==
  IF i > Len(toAdd) THEN acc
  ELSE LET type == toAdd[i][1]
           name == toAdd[i][2]
       IN  addLoopAlwaysPush([deps |-> [acc.deps EXCEPT ![type] = Append(@, name)],
                              fs |-> addComponentLink(acc.fs, sh, type, name).fs],
                             sh, toAdd, i + 1)

\* the loop of lines 107-128 over toAdd[i..]: the name goes into the
\* configuration, then the link is made; the loop goes on when it is not
RECURSIVE addLoop(_, _, _, _)
addLoop(acc, sh, toAdd, i) ==
  IF i > Len(toAdd) THEN acc
  ELSE LET type == toAdd[i][1]
           name == toAdd[i][2]
       IN  addLoop([deps |-> IF ~includes(acc.deps[type], name)
                               THEN [acc.deps EXCEPT ![type] = Append(@, name)]
                               ELSE acc.deps,
                    fs |-> addComponentLink(acc.fs, sh, type, name).fs],
                   sh, toAdd, i + 1)

\* the action of addCommand for <compType>:<compName>, withDeps unless
\* --no-deps; exit stands for process.exit(1)
addCommand(f, sh, d, md, man, compType, compName, withDeps) ==
  LET unchanged == [deps |-> d, fs |-> f]
      resolved == resolveComponentDependencies(md, sh, <<compType, compName>>, {}).deps
      toAdd == << <<compType, compName>> >>
                 \o (IF withDeps
                       THEN SelectSeq(resolved, LAMBDA p : ~includes(d[p[1]], p[2]))
                       ELSE <<>>)
      done == addLoop(unchanged, sh, toAdd, 1)
  IN  IF loadCldpmConfig(man).threw
        THEN [exit |-> TRUE] @@ unchanged
      ELSE IF ~pathExists(f, sh, SharedPath(compType, compName))
        THEN [exit |-> TRUE] @@ unchanged
      ELSE IF getProjectPath(man).null \/ loadProjectConfig(man).threw
        THEN [exit |-> TRUE] @@ unchanged
      ELSE IF includes(d[compType], compName)
        THEN [exit |-> FALSE] @@ unchanged
      ELSE [exit |-> FALSE] @@ done

\* the action of removeCommand for <compType>:<compName>
removeCommand(f, sh, d, man, compType, compName) ==
  LET unchanged == [deps |-> d, fs |-> f]
      index == indexOf(d[compType], compName)
  IN  IF getProjectPath(man).threw \/ getProjectPath(man).null
         \/ loadProjectConfig(man).threw
        THEN [exit |-> TRUE, found |-> FALSE] @@ unchanged
      ELSE IF index = 0
        THEN [exit |-> FALSE, found |-> FALSE] @@ unchanged
      ELSE [exit |-> FALSE, found |-> TRUE,
            deps |-> [d EXCEPT ![compType] = splice(@, index)],
            fs |-> removeComponentLink(f, sh, compType, compName).fs]

\* the <<kind, name>> pairs a manifest declares
DeclaredIn(d) == {c \in Nodes : includes(d[c[1]], c[2])}

AddCommand ==
  /\ \E c \in Slots, withDeps \in BOOLEAN :
       \E r \in {addCommand(fs, shared, deps, metadata, manifests, c[1], c[2], withDeps)} :
           /\ deps' = r.deps
           /\ fs' = r.fs
           /\ op' = [name |-> "cldpm add", kind |-> c[1], comp |-> c[2],
                     ok |-> ~r.exit /\ r.deps # deps,
                     created |-> <<>>, missing |-> <<>>, streak |-> 0,
                     threw |-> r.exit,
                     written |-> DeclaredIn(r.deps) \ DeclaredIn(deps),
                     withDeps |-> withDeps]
  /\ UNCHANGED <<shared, manifests, resolverVars, getVars>>

RemoveCommand ==
  /\ \E c \in Slots :
       \E r \in {removeCommand(fs, shared, deps, manifests, c[1], c[2])} :
           /\ deps' = r.deps
           /\ fs' = r.fs
           /\ op' = [name |-> "cldpm remove", kind |-> c[1], comp |-> c[2],
                     ok |-> r.found,
                     created |-> <<>>, missing |-> <<>>, streak |-> 0,
                     threw |-> r.exit, written |-> {}, withDeps |-> FALSE]
  /\ UNCHANGED <<shared, manifests, resolverVars, getVars>>

(***************************************************************************)
(* The command specification: add, remove and sync on one project, in any  *)
(* order, over a dependency graph of the three components of Slots         *)
(***************************************************************************)
\* what the metadata files of skills/a and skills/b may list
CommandMetadataChoices(n) ==
  LET lists(ds, da) == [k \in Kinds |-> IF k = "skills" THEN ds
                                         ELSE IF k = "agents" THEN da ELSE <<>>]
  IN  IF n = "a" THEN {lists(<<>>, <<>>), lists(<<"b">>, <<>>), lists(<<"b">>, <<"a">>)}
      ELSE {lists(<<>>, <<>>), lists(<<"a">>, <<>>), lists(<<>>, <<"a">>)}

\* the manifests: both fine, or one of them missing or invalid
ManifestChoices ==
  {ManifestsOk} \cup {[ManifestsOk EXCEPT ![w] = x] :
                        w \in {"root", "project"}, x \in {"missing", "invalid"}}

\* the project as a sync left it: links for declared skills, or a local
\* directory in the slot of a, and the generated .gitignore for the links
InitCommands ==
  /\ shared \in SUBSET Slots
  /\ \E m1 \in CommandMetadataChoices("a"), m2 \in CommandMetadataChoices("b") :
       metadata = [c \in Nodes |->
                     IF c = <<"skills", "a">> THEN m1
                     ELSE IF c = <<"skills", "b">> THEN m2
                     ELSE [k \in Kinds |-> <<>>]]
  /\ \E ds \in NoDupSeqs(PlainNames, MaxDeps), da \in {<<>>, <<"a">>} :
       deps = [k \in Kinds |-> IF k = "skills" THEN ds
                               ELSE IF k = "agents" THEN da ELSE <<>>]
  /\ \E e1 \in {NoEntry, DirEntry("local"), GoodLink("skills", "a")},
        e2 \in {NoEntry, GoodLink("skills", "b")} :
       LET en == [k \in Kinds |-> [n \in Names |->
                    IF <<k, n>> = <<"skills", "a">> THEN e1
                    ELSE IF <<k, n>> = <<"skills", "b">> THEN e2
                    ELSE NoEntry]]
           links == SelectSeq(NameOrder, LAMBDA n : en["skills"][n].type = "symlink")
       IN  fs = [typeDir |-> [k \in Kinds |-> \E n \in Names : en[k][n].type # "none"],
                 entries |-> en,
                 gitignore |-> [k \in Kinds |->
                                  IF k = "skills" /\ links # <<>>
                                    THEN TextFile(<<CLDPM_GITIGNORE_HEADER>> \o links)
                                    ELSE NoFile]]
  /\ manifests \in ManifestChoices
  \* the failing manifests are tried on the full shared storage only
  /\ manifests # ManifestsOk => shared = Slots /\ metadata = NoMetadata
  /\ op = NoCall
  /\ metaFile = NoMetaFiles
  /\ rpc = "idle"
  /\ root = <<"skills", "a">>
  /\ stack = <<>>
  /\ visited = {}
  /\ result = <<>>
  /\ expanded = [c \in Nodes |-> 0]
  /\ allDeps = [k \in Kinds |-> <<>>]
  /\ GetIdle

NextCommands == AddCommand \/ RemoveCommand \/ SyncProjectLinks

SpecCommands == InitCommands /\ [][NextCommands]_vars

(***************************************************************************)
(* commands/link.ts : linkCommand, unlinkCommand, with the read and the    *)
(* write of the metadata file (core/config.ts)                             *)
(***************************************************************************)
\* z.object(...).passthrough(): keys the schema does not name are kept
passthrough(keys) == keys

\* z.object(...) as ComponentDependenciesSchema is: keys the schema does not
\* name are stripped
strip(keys) == {}

\* the try block of loadComponentMetadata (lines 158-169): the parsed file,
\* or the minimal metadata when reading, JSON.parse or the schema throws
readMetadataFile(mf, md, c) ==
  IF mf[c].status = "valid"
    THEN [dependencies |-> md[c],
          extra |-> passthrough(mf[c].extra),
          depExtra |-> strip(mf[c].depExtra)]
    ELSE [dependencies |-> [k \in Kinds |-> <<>>], extra |-> {}, depExtra |-> {}]

\* saveComponentMetadata: JSON.stringify of the object over the file
saveComponentMetadata(mf, md, c, loaded) ==
  [metaFile |-> [mf EXCEPT ![c] = [status |-> "valid", extra |-> loaded.extra,
                                   depExtra |-> loaded.depExtra]],
   metadata |-> [md EXCEPT ![c] = loaded.dependencies]]

\* linkCommand for one dependency dep and the target t
linkCommand(mf, md, sh, man, t, dep) ==
  LET loaded == readMetadataFile(mf, md, t)
      pushed == IF dep \in sh /\ ~includes(loaded.dependencies[dep[1]], dep[2])
                  THEN [loaded EXCEPT !.dependencies[dep[1]] = Append(@, dep[2])]
                  ELSE loaded
  IN  IF loadCldpmConfig(man).threw \/ t \notin sh
        THEN [exit |-> TRUE, metaFile |-> mf, metadata |-> md]
        ELSE [exit |-> FALSE] @@ saveComponentMetadata(mf, md, t, pushed)

\* unlinkCommand for one dependency dep and the target t
unlinkCommand(mf, md, sh, man, t, dep) ==
  LET loaded == readMetadataFile(mf, md, t)
      index == indexOf(loaded.dependencies[dep[1]], dep[2])
      spliced == IF index # 0
                   THEN [loaded EXCEPT !.dependencies[dep[1]] = splice(@, index)]
                   ELSE loaded
  IN  IF loadCldpmConfig(man).threw \/ t \notin sh
        THEN [exit |-> TRUE, metaFile |-> mf, metadata |-> md]
        ELSE [exit |-> FALSE] @@ saveComponentMetadata(mf, md, t, spliced)

LinkCommand ==
  /\ \E t \in Slots, dep \in Slots :
       \E r \in {linkCommand(metaFile, metadata, shared, manifests, t, dep)} :
           /\ metaFile' = r.metaFile
           /\ metadata' = r.metadata
           /\ op' = [name |-> "cldpm link", kind |-> t[1], comp |-> t[2],
                     ok |-> r.metadata # metadata,
                     created |-> <<>>, missing |-> <<>>, streak |-> 0,
                     threw |-> r.exit, written |-> {}, withDeps |-> FALSE]
  /\ UNCHANGED <<shared, deps, fs, manifests, getVars,
                 rpc, root, stack, visited, result, expanded, allDeps>>

UnlinkCommand ==
  /\ \E t \in Slots, dep \in Slots :
       \E r \in {unlinkCommand(metaFile, metadata, shared, manifests, t, dep)} :
           /\ metaFile' = r.metaFile
           /\ metadata' = r.metadata
           /\ op' = [name |-> "cldpm unlink", kind |-> t[1], comp |-> t[2],
                     ok |-> r.metadata # metadata,
                     created |-> <<>>, missing |-> <<>>, streak |-> 0,
                     threw |-> r.exit, written |-> {}, withDeps |-> FALSE]
  /\ UNCHANGED <<shared, deps, fs, manifests, getVars,
                 rpc, root, stack, visited, result, expanded, allDeps>>

\* what the file shared/skills/a/skill.json may be: a file that does not
\* parse and an absent one have no fields
MetaFileChoices ==
  {[status |-> st, extra |-> ex, depExtra |-> dx] :
     st \in {"valid", "invalid"}, ex \in {{}, {"author"}}, dx \in {{}, {"commands"}}}
    \cup {[status |-> st, extra |-> {}, depExtra |-> {}] : st \in {"unparsable", "absent"}}

InitLink ==
  /\ shared \in SUBSET Slots
  /\ \E file \in MetaFileChoices, m \in CommandMetadataChoices("a") :
       \* only a valid file gives dependency lists
       /\ file.status # "valid" => m = [k \in Kinds |-> <<>>]
       /\ metaFile = [c \in Nodes |-> IF c = <<"skills", "a">> THEN file
                                       ELSE PlainMetaFile]
       /\ metadata = [c \in Nodes |-> IF c = <<"skills", "a">> THEN m
                                       ELSE [k \in Kinds |-> <<>>]]
  /\ manifests \in {ManifestsOk, [ManifestsOk EXCEPT !.root = "missing"]}
  /\ deps = [k \in Kinds |-> <<>>]
  /\ fs = EmptyFs
  /\ op = NoCall
  /\ rpc = "idle"
  /\ root = <<"skills", "a">>
  /\ stack = <<>>
  /\ visited = {}
  /\ result = <<>>
  /\ expanded = [c \in Nodes |-> 0]
  /\ allDeps = [k \in Kinds |-> <<>>]
  /\ GetIdle

NextLink == LinkCommand \/ UnlinkCommand

SpecLink == InitLink /\ [][NextLink]_vars

(***************************************************************************)
(* Properties of the linker                                                *)
(***************************************************************************)
Symlinks(f, k) == {n \in Names : f.entries[k][n].type = "symlink"}

IsLocal(e) == e.type \in {"dir", "file"}

\* C1: a syncProjectLinks that directly follows a syncProjectLinks leaves the
\* project's .claude tree (links, their targets, ignore manifests) as it was.
C1_SyncIdempotent ==
  [][(op.name = "sync" /\ op'.name = "sync") => fs' = fs]_vars

C1_Witness ==
  /\ op.name = "sync" /\ op.streak = 2
  /\ fs.entries["skills"]["a"].type = "symlink"
  /\ fs.entries["skills"]["b"].type = "dir"
  /\ fs.gitignore["skills"] = TextFile(<<CLDPM_GITIGNORE_HEADER, "a">>)
  /\ <<"agents", "a">> \in Range(op.missing)

\* C2: syncProjectLinks leaves every local (non-symlink) component of the
\* project in place and unchanged, also one named like a declared dependency.
C2_SyncKeepsLocal ==
  [][op'.name = "sync" =>
       \A k \in Kinds, n \in Names :
         IsLocal(fs.entries[k][n]) => fs'.entries[k][n] = fs.entries[k][n]]_vars

C2_Witness ==
  /\ op.name = "sync"
  /\ fs.entries["skills"]["a"] = DirEntry("local")
  /\ "a" \in Range(deps["skills"])
  /\ <<"skills", "a">> \in shared
  /\ fs.entries["skills"]["b"].type = "symlink"

\* C3: after syncProjectLinks the symlinks of a kind are exactly the declared
\* dependencies whose shared directory exists and whose slot holds no local
\* entry, and each of them resolves to shared/<kind>/<name>.
C3_SyncLinksExact ==
  op.name = "sync" =>
    \A k \in Kinds, n \in Names :
      /\ fs.entries[k][n].type = "symlink" <=>
            /\ n \in Range(deps[k])
            /\ <<k, n>> \in shared
            /\ ~IsLocal(fs.entries[k][n])
      /\ fs.entries[k][n].type = "symlink" =>
            ResolveLink(TypeDirPath(k), fs.entries[k][n].target) = SharedPath(k, n)

C3_Witness ==
  /\ op.name = "sync" /\ op.streak = 1
  /\ deps["skills"] = <<"b">>
  /\ fs.entries["skills"]["b"].type = "symlink"
  /\ fs.entries["skills"]["a"].type = "none"
  /\ <<"skills", "a">> \in shared

\* C4: a declared dependency without a shared directory is listed in the
\* result's missing list and gets no link, and the other declared
\* dependencies are still linked or reported.
C4_MissingReported ==
  op.name = "sync" =>
    \A k \in Kinds : \A n \in Range(deps[k]) :
      /\ <<k, n>> \notin shared =>
            /\ <<k, n>> \in Range(op.missing)
            /\ <<k, n>> \notin Range(op.created)
            /\ fs.entries[k][n].type # "symlink"
      /\ <<k, n>> \in shared =>
            \/ <<k, n>> \in Range(op.created) /\ fs.entries[k][n].type = "symlink"
            \/ IsLocal(fs.entries[k][n])

C4_Witness ==
  /\ op.name = "sync"
  /\ deps["skills"] = <<"a", "b">>
  /\ op.missing = << <<"skills", "a">> >>
  /\ op.created = << <<"skills", "b">>, <<"agents", "a">> >>

\* C5: the ignore manifest of a kind that holds symlinks is the header
\* followed by exactly the names of the symlinks on disk; every sync and
\* every successful add or remove establishes this for the kinds it rewrites
\* and no call breaks it for another kind.
Truthful(f, k) ==
  Symlinks(f, k) # {} =>
    /\ f.gitignore[k].present
    /\ startsWithHeader(f.gitignore[k])
    /\ Range(Tail(f.gitignore[k].lines)) = Symlinks(f, k)

C6_EmptyKindGitignore ==
  [][\A k \in Kinds :
       ((op'.name = "sync" \/ (op'.name = "remove" /\ op'.ok /\ op'.kind = k))
          /\ Symlinks(fs', k) = {})
       => IF fs.gitignore[k].present /\ startsWithHeader(fs.gitignore[k])
            THEN ~fs'.gitignore[k].present
            ELSE fs'.gitignore[k] = fs.gitignore[k]]_vars

C6_Witness ==
  /\ op.name = "remove" /\ op.ok /\ op.kind = "skills"
  /\ Symlinks(fs, "skills") = {}
  /\ fs.gitignore["skills"] = TextFile(<<"*.tmp">>)

\* C7: no call replaces a local (non-symlink) entry by a link: the entry is
\* unchanged, addComponentLink on its slot returns false and syncProjectLinks
\* does not report the slot as created.
C7_NeverOverwritesLocal ==
  [][\A k \in Kinds, n \in Names :
       IsLocal(fs.entries[k][n]) =>
         /\ fs'.entries[k][n] = fs.entries[k][n]
         /\ (op'.name = "add" /\ op'.kind = k /\ op'.comp = n) => ~op'.ok
         /\ op'.name = "sync" => <<k, n>> \notin Range(op'.created)]_vars

C7_Witness ==
  /\ op.name = "add" /\ ~op.ok /\ op.kind = "skills" /\ op.comp = "b"
  /\ fs.entries["skills"]["b"] = FileEntry("local")
  /\ <<"skills", "b">> \in shared

\* C15: after syncProjectLinks every declared dependency that has no link is
\* named in the returned result as a failure, whether its shared directory
\* is missing or the link could not be made.
C15_FailuresReported ==
  op.name = "sync" =>
    \A k \in Kinds : \A n \in Range(deps[k]) :
      fs.entries[k][n].type # "symlink" => <<k, n>> \in Range(op.missing)

\* C16: createSymlink, reached through addComponentLink for an existing
\* shared component, replaces any symlink in the slot, live or dangling, by a
\* link to the component and returns true.
C16_ReplacesAnySymlink ==
  [][\A s \in Slots :
       (/\ op'.name = "add" /\ op'.kind = s[1] /\ op'.comp = s[2]
        /\ s \in shared
        /\ fs.entries[s[1]][s[2]].type = "symlink")
       => (op'.ok /\ fs'.entries[s[1]][s[2]] = GoodLink(s[1], s[2]))]_vars

\* C17: removeComponentLink returns true exactly when the slot holds a
\* symlink, whatever its target; then the entry is gone, and otherwise the
\* filesystem is unchanged.
C17_RemoveIffSymlink ==
  [][\A s \in Slots :
       (op'.name = "remove" /\ op'.kind = s[1] /\ op'.comp = s[2])
       => /\ op'.ok <=> fs.entries[s[1]][s[2]].type = "symlink"
          /\ op'.ok => fs'.entries[s[1]][s[2]] = NoEntry
          /\ ~op'.ok => fs' = fs]_vars

\* C18: every symlink made by syncProjectLinks (all links present after it)
\* or by a successful addComponentLink stores a relative raw target, which
\* resolves from the link's directory to shared/<kind>/<name>.
C18_RelativeTargets ==
  [][\A k \in Kinds, n \in Names :
       (/\ fs'.entries[k][n].type = "symlink"
        /\ \/ op'.name = "sync"
           \/ op'.name = "add" /\ op'.ok /\ op'.kind = k /\ op'.comp = n)
       => /\ ~IsAbsolute(fs'.entries[k][n].target)
          /\ ResolveLink(TypeDirPath(k), fs'.entries[k][n].target) = SharedPath(k, n)]_vars

C18_Witness ==
  /\ op.name = "add" /\ op.ok /\ op.kind = "skills" /\ op.comp = "a"
  /\ fs.entries["skills"]["a"].type = "symlink"
  /\ Head(fs.entries["skills"]["a"].target) = ".."
  /\ fs.entries["skills"]["b"] = LinkEntry(ElsewherePath)

(***************************************************************************)
(* Properties of the resolver                                              *)
(***************************************************************************)
\* the dependency edges: only an existing component has any
Edges(c) ==
  IF c \in shared
    THEN UNION {{<<k, metadata[c][k][i]>> : i \in 1..Len(metadata[c][k])} : k \in Kinds}
    ELSE {}

RECURSIVE ReachClosure(_)
ReachClosure(R) ==
  LET R2 == R \cup UNION {Edges(x) : x \in R}
  IN  IF R2 = R THEN R ELSE ReachClosure(R2)

\* what one or more edges lead to from c
Reachable(c) == ReachClosure(Edges(c))

Count(q, x) == Cardinality({i \in 1..Len(q) : q[i] = x})

\* C8: the list returned for a component contains every component that one
\* or more dependency edges through existing components lead to.
C8_ContainsReachable ==
  rpc = "done" => Reachable(root) \subseteq Range(result)

C8_Witness ==
  /\ rpc = "done" /\ root = <<"skills", "a">>
  /\ Edges(<<"skills", "a">>) = {<<"skills", "b">>}
  /\ Edges(<<"skills", "b">>) = {<<"agents", "a">>}
  /\ <<"agents", "a">> \in shared
  /\ result = << <<"skills", "b">>, <<"agents", "a">> >>

\* C9: every traversal ends, no component's dependencies are walked twice in
\* it, and for the cycle A -> B -> A the list returned for A holds B once.
C9_Terminates ==
  /\ [](\A c \in Nodes : expanded[c] <= 1)
  /\ [](rpc = "done" =>
          \A b \in Nodes :
            (b # root /\ Edges(root) = {b} /\ Edges(b) = {root}) => Count(result, b) = 1)
  /\ (rpc = "running" ~> rpc = "done")

C9_Witness ==
  /\ rpc = "done" /\ root = <<"skills", "a">>
  /\ Edges(<<"skills", "a">>) = {<<"skills", "b">>}
  /\ Edges(<<"skills", "b">>) = {<<"skills", "a">>}
  /\ result = << <<"skills", "b">>, <<"skills", "a">> >>
  /\ expanded[<<"skills", "b">>] = 1

\* C19: a dependency target whose shared directory does not exist is left
\* out of the returned list, and the existing components reachable through
\* existing components are all in it.
C19_MissingSkipped ==
  rpc = "done" =>
    /\ \A c \in Range(result) : c \in shared
    /\ (Reachable(root) \cap shared) \subseteq Range(result)

\* the first position of x in q
FirstIndex(q, x) == CHOOSE i \in 1..Len(q) : q[i] = x /\ \A j \in 1..(i - 1) : q[j] # x

\* C20: per kind, getAllDependenciesForComponent returns the names of that
\* kind in the resolved list, each once, in the order of first appearance.
C20_GroupedNoDuplicates ==
  rpc = "done" =>
    \A k \in Kinds :
      /\ Range(allDeps[k]) = {c[2] : c \in {x \in Range(result) : x[1] = k}}
      /\ \A i, j \in 1..Len(allDeps[k]) :
           i < j => FirstIndex(result, <<k, allDeps[k][i]>>)
                      < FirstIndex(result, <<k, allDeps[k][j]>>)

C20_Witness ==
  /\ rpc = "done" /\ root = <<"skills", "a">>
  /\ result = << <<"skills", "b">>, <<"agents", "a">>, <<"agents", "a">> >>
  /\ allDeps["skills"] = <<"b">>
  /\ allDeps["agents"] = <<"a">>

(***************************************************************************)
(* Properties of the remote get                                            *)
(***************************************************************************)
\* C10: when the command has finished, by success or by any failure, no
\* temporary directory it created is left on disk.
C10_TempsCleaned ==
  gpc \in {"done", "exited"} => temps = {}

\* the staging directory the view and the download are made from
FinalStage == IF opts.useSparse THEN staged["cldpm-3"] ELSE staged["cldpm-full"]

\* the project's declared dependencies and what they lead to
Declared == UNION {{<<k, deps[k][i]>> : i \in 1..Len(deps[k])} : k \in Kinds}

ProjectClosure == Declared \cup UNION {Reachable(c) : c \in Declared}

\* what the project needs from the repository
Needed ==
  {RootManifest, ProjectDir, ProjectManifest}
    \cup {SharedComp(c[1], c[2]) : c \in ProjectClosure}

\* C11: once a remote fetch has staged the project, the staging directory
\* holds the root manifest, the project's directory and the directory of
\* every existing shared component the project depends on, transitively.
C11_StagingComplete ==
  gpc \in {"output", "full_output"} =>
    ({RootManifest, ProjectDir}
       \cup {SharedComp(c[1], c[2]) : c \in ProjectClosure \cap shared}) \subseteq FinalStage

\* C12, as stated: the staging directory of a remote fetch, sparse or
\* fallback, holds nothing but what the project needs.
C12_StagingOnlyNeeded ==
  gpc \in {"output", "full_output"} => FinalStage \subseteq Needed

\* C12, amended: on the sparse path every staging directory, of any phase,
\* holds nothing but what the project needs.
C12_SparseStagingOnlyNeeded ==
  (opts.remote /\ opts.useSparse) => \A t \in TempNames : staged[t] \subseteq Needed

C12_Witness ==
  /\ gpc = "output"
  /\ staged["cldpm-3"] = {ProjectDir, SharedComp("skills", "a")}
  /\ shared = {<<"skills", "a">>, <<"skills", "b">>}
  /\ ProjectClosure = {<<"skills", "a">>}

\* C13: a remote get prints the view the other strategy would print for
\* the same repository, and with --download writes the output the other
\* strategy would write.
C13_FallbackSameResult ==
  LET sparseStage == sparseCopied(allPaths(deps), RepoPaths(shared, remote))
      sparseView == buildSparseResult(sparseStage, deps, fs, remote)
      fullStage == cloned(RepoPaths(shared, remote))
      fullView == resolveProject(compsIn(fullStage), deps, fs, remote)
  IN  /\ (opts.remote /\ view # NoView) =>
           view = (IF opts.useSparse THEN fullView ELSE sparseView)
      /\ (opts.remote /\ output.written) =>
           output = (IF opts.useSparse
                       THEN downloadRemoteProject(fullView, fullStage, fs)
                       ELSE downloadSparseProject(sparseStage, deps, fs))

\* C14, as stated: in a written output every declared shared dependency that
\* exists in the source is a copy of the shared component, and no slot
\* holds a symlink.
C14_DownloadCopies ==
  output.written =>
    \A k \in Kinds : \A n \in Names :
      /\ output.entries[k][n].type # "symlink"
      /\ (n \in Range(deps[k]) /\ <<k, n>> \in shared)
           => output.entries[k][n] = DirEntry(SharedContent)

\* C14, amended: no slot of a written output holds a symlink; a local entry
\* of the project is copied as it is, also under the name of a declared
\* dependency; every other declared shared dependency that exists in the
\* source is a copy of the shared component.
C14_DownloadCopiesUnlessLocal ==
  output.written =>
    \A k \in Kinds : \A n \in Names :
      /\ output.entries[k][n].type # "symlink"
      /\ IsLocal(fs.entries[k][n]) => output.entries[k][n] = fs.entries[k][n]
      /\ (n \in Range(deps[k]) /\ <<k, n>> \in shared /\ ~IsLocal(fs.entries[k][n]))
           => output.entries[k][n] = DirEntry(SharedContent)

C14_Witness ==
  /\ gpc = "done" /\ output.written /\ ~opts.remote
  /\ fs.entries["skills"]["a"] = GoodLink("skills", "a")
  /\ deps["skills"] = <<"a", "b">>
  /\ output.entries["skills"]["a"] = DirEntry(SharedContent)
  /\ output.entries["skills"]["b"] = DirEntry(SharedContent)

\* the names a view lists under local and under shared for a kind
LocalNames(v, k) == {v.local[k][i].name : i \in 1..Len(v.local[k])}

SharedNames(v, k) == {v.shared[k][i].name : i \in 1..Len(v.shared[k])}

\* the view was built by resolveProject (a local get or the full clone)
ViewResolved == view # NoView /\ ~(opts.remote /\ opts.useSparse)

\* C21: in the view of resolveProject the local components of a kind are
\* exactly the entries under .claude/<kind> that are real directories: a
\* symlink is never local, and a real directory that the manifest does not
\* declare is under local and not under shared.
C21_LocalAreRealDirs ==
  ViewResolved =>
    \A k \in Kinds :
      /\ LocalNames(view, k) = {n \in Names : fs.entries[k][n].type = "dir"}
      /\ \A n \in Names :
           fs.entries[k][n].type = "dir" /\ ~includes(deps[k], n)
             => n \notin SharedNames(view, k)

\* C21 as the code has it: the real directories whose name does not start
\* with a dot; a hidden directory is not reported.
C21_LocalAreVisibleRealDirs ==
  ViewResolved =>
    \A k \in Kinds :
      /\ LocalNames(view, k) =
           {n \in Names : fs.entries[k][n].type = "dir" /\ ~startsWithDot(n)}
      /\ \A n \in Names :
           fs.entries[k][n].type = "dir" /\ ~includes(deps[k], n)
             => n \notin SharedNames(view, k)

\* an undeclared real directory next to a hidden one: only the first is local
C21_Witness ==
  /\ ViewResolved
  /\ fs.entries["skills"]["a"].type = "dir"
  /\ fs.entries["skills"][".x"].type = "dir"
  /\ deps["skills"] = <<>>
  /\ LocalNames(view, "skills") = {"a"}
  /\ SharedNames(view, "skills") = {}

\* C22: in the three-phase fetch each phase starts without a staging
\* directory of its own name on disk, and the directory of an earlier phase is
\* gone when the next phase begins: no phase-1 directory at the start of
\* phase 2, no phase-1 or phase-2 directory at the start of phase 3.
C22_PhaseDirsDiscarded ==
  /\ gpc = "phase1" => "cldpm-1" \notin temps
  /\ gpc = "phase2" => temps \cap {"cldpm-1", "cldpm-sparse-1", "cldpm-2"} = {}
  /\ gpc = "phase3" =>
       temps \cap {"cldpm-1", "cldpm-2", "cldpm-sparse-2", "cldpm-3"} = {}
  /\ gpc = "output" => tempDir = "cldpm-3" /\ temps = {"cldpm-3"}

\* the third phase has staged the project: only its own directory exists
C22_Witness ==
  /\ gpc = "output"
  /\ temps = {"cldpm-3"}
  /\ ProjectDir \in staged["cldpm-3"]
  /\ Cardinality(clones) = 1

HandAuthored(file) == file.present /\ ~startsWithHeader(file)

NoDuplicates(q) == \A i, j \in 1..Len(q) : q[i] = q[j] => i = j

\* the slot of c holds a symlink that resolves to the shared component c
LinkedToShared(f, sh, c) ==
  /\ f.entries[c[1]][c[2]].type = "symlink"
  /\ ResolveLink(TypeDirPath(c[1]), f.entries[c[1]][c[2]].target) = SharedPath(c[1], c[2])
  /\ c \in sh

\* C24: no kind list of project.json names a component twice, after any
\* sequence of add and remove commands on a manifest without duplicates.
C24_DeclaredUnique ==
  \A k \in Kinds : NoDuplicates(deps[k])

\* a and b depend on each other: add a has declared both, each once
C24_Witness ==
  /\ op.name = "cldpm add" /\ op.withDeps /\ op.comp = "a" /\ op.kind = "skills"
  /\ <<"skills", "a">> \in Edges(<<"skills", "b">>)
  /\ <<"skills", "b">> \in Edges(<<"skills", "a">>)
  /\ op.written = {<<"skills", "a">>, <<"skills", "b">>}
  /\ deps["skills"] = <<"a", "b">>

\* C26: when cldpm.json or project.json is missing or invalid,
\* syncProjectLinks raises and the project's .claude tree is as it was: no
\* link removed or created, no .gitignore written or deleted.
C26_SyncRaisesBeforeWriting ==
  [][(op'.name = "sync" /\ manifests # ManifestsOk)
       => op'.threw /\ fs' = fs]_vars

\* a sync that raised on an invalid project.json next to an existing link
C26_Witness ==
  /\ op.name = "sync" /\ op.threw
  /\ manifests.project = "invalid"
  /\ Symlinks(fs, "skills") # {}
  /\ fs.gitignore["skills"].present

\* C28: after an add that ended without error, every <<kind, name>> it
\* newly wrote into project.json has a symlink at .claude/<kind>/<name> that
\* resolves to the shared component.
C28_AddedAreLinked ==
  (op.name = "cldpm add" /\ ~op.threw) =>
    \A c \in op.written : LinkedToShared(fs, shared, c)

\* C29: after remove of a declared component X, X is not in project.json,
\* no symlink is at .claude/<kind>/X, also when the link was dangling, and
\* every other declared name and every other entry is as before.
C29_RemoveUndoesAdd ==
  [][(op'.name = "cldpm remove" /\ ~op'.threw /\ includes(deps[op'.kind], op'.comp))
       => /\ ~includes(deps'[op'.kind], op'.comp)
          /\ fs'.entries[op'.kind][op'.comp].type # "symlink"
          /\ \A k \in Kinds :
               deps'[k] = SelectSeq(deps[k], LAMBDA n : <<k, n>> # <<op'.kind, op'.comp>>)
          /\ \A k \in Kinds, n \in Names :
               \/ <<k, n>> = <<op'.kind, op'.comp>> /\ fs.entries[k][n].type = "symlink"
               \/ fs'.entries[k][n] = fs.entries[k][n]]_vars

\* C30: add of an undeclared X without --no-deps leaves project.json
\* declaring what it declared, X and everything dependency edges lead to
\* from X; with --no-deps what it declared and X.  Declared names keep
\* their places.
C30_AddDeclaresClosure ==
  [][(op'.name = "cldpm add" /\ ~op'.threw
        /\ ~includes(deps[op'.kind], op'.comp))
       => LET X == <<op'.kind, op'.comp>>
          IN  /\ DeclaredIn(deps') =
                   DeclaredIn(deps) \cup {X}
                     \cup (IF op'.withDeps THEN Reachable(X) ELSE {})
              /\ \A k \in Kinds : SubSeq(deps'[k], 1, Len(deps[k])) = deps[k]]_vars

\* a -> b -> agent a: add a has declared all three; b was not reached
\* by a direct edge only
C30_Witness ==
  /\ op.name = "cldpm add" /\ op.withDeps /\ op.comp = "a" /\ op.kind = "skills"
  /\ Edges(<<"skills", "a">>) = {<<"skills", "b">>}
  /\ Edges(<<"skills", "b">>) = {<<"agents", "a">>}
  /\ op.written = {<<"skills", "a">>, <<"skills", "b">>, <<"agents", "a">>}

\* C25: link and unlink rewrite a component's metadata file so that every
\* field the schema does not name is kept, whatever the file held before;
\* only the dependency lists of the target change, and no other file.
C25_PassthroughKept ==
  [][(op'.name \in {"cldpm link", "cldpm unlink"} /\ ~op'.threw)
       => LET t == <<op'.kind, op'.comp>>
          IN  /\ metaFile'[t].extra = metaFile[t].extra
              /\ metaFile'[t].depExtra = metaFile[t].depExtra
              /\ \A c \in Nodes \ {t} :
                   metaFile'[c] = metaFile[c] /\ metadata'[c] = metadata[c]]_vars

====
